---- MODULE Spec2Model ----
(***************************************************************************)
(* CampusLens backend: the per-connection proximity state machine of the   *)
(* WebSocket handler (websocket/socketHandler.ts).                         *)
(*                                                                         *)
(* A position is a point on the meridian through the campus origin, given  *)
(* as its distance in metres north of the origin; for two such points the  *)
(* haversine distance of calculateDistance is the absolute difference.     *)
(* Every await of the handler is a point where the handler is suspended    *)
(* and any other handler may run; the code between two awaits is one step. *)
(***************************************************************************)
EXTENDS Integers, Sequences, FiniteSets, TLC

\* ------------------------------------------------------------------ bounds
MaxSamples == 3

\* --------------------------------------------------------------- constants
BoundaryDistance == 50

\* socket ids
Sessions == {1, 2}
\* raw coordinates a client reports, and the coordinates the refinement
\* query answers with
RawPositions == {0, 51}
RefinedPositions == {50}
Positions == RawPositions \cup RefinedPositions

\* a coordinate that is missing from the message (undefined), and one that is
\* not a number (NaN)
Undefined == -1
NotANumber == -2
InvalidData == {Undefined, NotANumber}

Unset == <<>>
Some(p) == <<p>>
Val(o) == o[1]

\* --------------------------------------------------------------- variables
VARIABLES
  connectedClients,   \* key set of the connectedClients map
  clientSockets,      \* key set of the clientSockets map
  socketStatus,       \* per socket: "idle", "connected" or "disconnected"
  client,             \* the ClientInfo object of each socket
  samples,            \* the user_position handler invocations, in arrival order
  emitted,            \* per socket: the socket.emit calls, in call order
  handled,            \* per socket: the samples evaluated, in evaluation order
  resolved,           \* the last call of the placement-vector resolver: arguments and outcome
  rawfrontend,        \* the rows of public.rawfrontend, by objectid
  requests,           \* the POST /receive_data_about_assets handler invocations
  rendered            \* the arguments and result of the last RenderElements over rawfrontend

socketVars == <<connectedClients, clientSockets, socketStatus, client, samples, emitted, handled>>
resolverVars == <<resolved>>
assetVars == <<rawfrontend, requests, rendered>>

vars == <<connectedClients, clientSockets, socketStatus, client, samples, emitted, handled,
          resolved, rawfrontend, requests, rendered>>

\* ----------------------------------------------------------------- helpers
Abs(x) == IF x < 0 THEN -x ELSE x

NewClientInfoSettled == [state |-> "ok", initialPosition |-> Unset, currentPosition |-> Unset]

\* ClientInfo as built by the connection handler
NewClientInfo == [state |-> "accept", initialPosition |-> Unset, currentPosition |-> Unset]

\* what the triangulate_coordinate query can answer
DbOutcomes == {[kind |-> "row", pos |-> p] : p \in RefinedPositions}
                \cup {[kind |-> "empty", pos |-> 0], [kind |-> "error", pos |-> 0]}

triangulateCoordinateNullRow(raw, outcome) == outcome.pos

\* triangulateCoordinate: the row of the query, or the raw coordinate when
\* the query returns no row or throws
triangulateCoordinate(raw, outcome) ==
  IF outcome.kind = "row" THEN outcome.pos ELSE raw

\* triangulateCoordinate answered with the raw coordinate
IsFallback(outcome) == outcome.kind # "row"

\* calculateDistance: new Decimal(undefined) throws
DistanceThrows(p1, p2) == p1 = Undefined \/ p2 = Undefined

\* calculateDistance: haversine distance in metres between two positions; NaN
\* when a coordinate is NaN
calculateDistance(p1, p2) ==
  IF p1 = NotANumber \/ p2 = NotANumber THEN NotANumber ELSE Abs(p2 - p1)

\* what the rawfrontend query of getNearbyAssets can answer
LookupOutcomes == {[kind |-> "rows", assets |-> <<>>],
                   [kind |-> "rows", assets |-> <<[id |-> 1, position |-> 51]>>],
                   [kind |-> "error", assets |-> <<>>]}

\* getNearbyAssets / RenderElements: the assets of the query, [] on error
RenderElements(outcome) ==
  IF outcome.kind = "rows" THEN outcome.assets ELSE <<>>

\* the query of getNearbyAssets threw
LookupFailed(outcome) == outcome.kind = "error"

PlaceholderAssetAtOrigin(refined) == [id |-> 0, position |-> 0]

\* the placeholder asset of the off_boundaries event: id 0, at the refined
\* position of the sample
PlaceholderAsset(refined) == [id |-> 0, position |-> refined]

Event(ev, st, msg, pos, assets, h) ==
  [event |-> ev, state |-> st, message |-> msg, position |-> pos, assets |-> assets, sample |-> h]

IsFirstPositionByState(c) == c.state = "accept"

\* !client.initialPosition
IsFirstPosition(c) == c.initialPosition = Unset

ExceedsBoundaryInclusive(distance) == distance # NotANumber /\ distance >= BoundaryDistance

\* currentDistance.greaterThan(boundaryDistance): false for NaN
ExceedsBoundary(distance) == distance # NotANumber /\ distance > BoundaryDistance

CanCrossOnlyAccept(st) == st = "accept"

CanCrossAlways(st) == TRUE

\* client.state === 'accept' || client.state === 'ok'
CanCross(st) == st \in {"accept", "ok"}

FirstPositionStateOk == "ok"

\* the state a first position leaves the client in
FirstPositionState == "accept"

BackWithinStay(st) == st

BackWithinAccept(st) == "accept"

\* the state a return within the boundaries leaves the client in
BackWithinState(st) == "ok"

\* the first-position branch: record the initial position, report it
FirstPosition(c, refined, h) ==
  [client |-> [c EXCEPT !.initialPosition = Some(refined), !.state = FirstPositionState],
   emits  |-> <<Event("position_status", "accept", "Initial position recorded", Some(refined), <<>>, h)>>,
   pc     |-> "done"]

\* the branch of a distance beyond the boundary
BeyondBoundaries(c, refined, h) ==
  IF CanCross(c.state)
    THEN [client |-> [c EXCEPT !.state = "off_boundaries"], emits |-> <<>>, pc |-> "awaitRender"]
    ELSE [client |-> c, emits |-> <<>>, pc |-> "done"]

\* the branch of a distance within the boundary
WithinBoundaries(c, refined, h) ==
  IF c.state = "off_boundaries"
    THEN [client |-> [c EXCEPT !.state = BackWithinState(c.state)],
          emits  |-> <<Event("position_status", "ok", "Back within boundaries", Some(refined), <<>>, h)>>,
          pc     |-> "done"]
    ELSE IF c.state = "accept"
      THEN [client |-> [c EXCEPT !.state = "ok"],
            emits  |-> <<Event("position_status", "ok", "Position updated", Some(refined), <<>>, h)>>,
            pc     |-> "done"]
      ELSE [client |-> c, emits |-> <<>>, pc |-> "done"]

\* the catch block: the error is reported, the handler ends
PositionError(c, refined, h) ==
  [client |-> c,
   emits  |-> <<Event("error", "", "Error processing position", Unset, <<>>, h)>>,
   pc     |-> "done"]

\* the handler from the return of triangulateCoordinate to its next await or
\* its end; c is the ClientInfo, refined the refined position
HandlePosition(c, refined, h) ==
  LET c1 == [c EXCEPT !.currentPosition = Some(refined)]
  IN IF IsFirstPosition(c1)
       THEN FirstPosition(c1, refined, h)
       ELSE IF DistanceThrows(Val(c1.initialPosition), refined)
         THEN PositionError(c1, refined, h)
         ELSE IF ExceedsBoundary(calculateDistance(Val(c1.initialPosition), refined))
                THEN BeyondBoundaries(c1, refined, h)
                ELSE WithinBoundaries(c1, refined, h)

\* the assets of the off_boundaries event
OffBoundariesAssetsAsFound(nearbyAssets, refined) == nearbyAssets

OffBoundariesAssets(nearbyAssets, refined) ==
  IF Len(nearbyAssets) > 0 THEN nearbyAssets ELSE <<PlaceholderAsset(refined)>>

ClientKeyShared(s) == 1

\* connectedClients.get(socket.id): the key under which a handler finds its ClientInfo
ClientKey(s) == s

\* ------------------------------------------------------------------- Init
Init ==
  /\ connectedClients = {}
  /\ clientSockets = {}
  /\ socketStatus = [s \in Sessions |-> "idle"]
  /\ client = [s \in Sessions |-> NewClientInfo]
  /\ samples = <<>>
  /\ emitted = [s \in Sessions |-> <<>>]
  /\ handled = [s \in Sessions |-> <<>>]
  /\ resolved = <<>>
  /\ rawfrontend = <<>>
  /\ requests = <<>>
  /\ rendered = <<>>

\* ---------------------------------------------------------------- actions
\* io.on('connection')
Connect(s) ==
  /\ socketStatus[s] = "idle"
  /\ socketStatus' = [socketStatus EXCEPT ![s] = "connected"]
  /\ client' = [client EXCEPT ![s] = NewClientInfo]
  /\ connectedClients' = connectedClients \cup {s}
  /\ clientSockets' = clientSockets \cup {s}
  /\ emitted' = [emitted EXCEPT ![s] = Append(@, Event("welcome", "accept", "welcome", Unset, <<>>, 0))]
  /\ UNCHANGED <<samples, handled>>
  /\ UNCHANGED <<resolverVars, assetVars>>

\* socket.on('user_position'): the handler up to its first await, for a
\* client population that sends at most max samples
ReceivePosition(s, raw, max) ==
  /\ socketStatus[s] = "connected"
  /\ Len(samples) < max
  /\ samples' = Append(samples,
        [socket |-> s, data |-> raw, refinedPosition |-> Unset, distance |-> Unset,
         fallback |-> FALSE, receivedIn |-> client[s].state,
         nearbyAssets |-> Unset, lookupFailed |-> FALSE,
         pc |-> IF s \in connectedClients THEN "awaitTriangulate" ELSE "done"])
  /\ UNCHANGED <<connectedClients, clientSockets, socketStatus, client, emitted, handled>>
  /\ UNCHANGED <<resolverVars, assetVars>>

UserPosition(s, raw) == ReceivePosition(s, raw, MaxSamples)

\* the await of triangulateCoordinate returns: the handler runs to its next
\* await or to its end
TriangulateReturns(h, outcome) ==
  /\ h \in 1..Len(samples)
  /\ samples[h].pc = "awaitTriangulate"
  /\ LET s == samples[h].socket
         refined == triangulateCoordinate(samples[h].data, outcome)
         r == HandlePosition(client[ClientKey(s)], refined, h)
         d == IF IsFirstPosition(client[s]) \/ DistanceThrows(Val(client[s].initialPosition), refined)
              THEN Unset
              ELSE Some(calculateDistance(Val(client[s].initialPosition), refined))
     IN /\ client' = [client EXCEPT ![ClientKey(s)] = r.client]
        /\ emitted' = [emitted EXCEPT ![s] = @ \o r.emits]
        /\ samples' = [samples EXCEPT ![h].pc = r.pc, ![h].refinedPosition = Some(refined),
                                      ![h].distance = d, ![h].fallback = IsFallback(outcome)]
        /\ handled' = [handled EXCEPT ![s] = Append(@,
              [sample |-> h, from |-> client[s].state, to |-> r.client.state])]
  /\ UNCHANGED <<connectedClients, clientSockets, socketStatus>>
  /\ UNCHANGED <<resolverVars, assetVars>>

\* the await of RenderElements returns: the off_boundaries event is sent
RenderReturns(h, outcome) ==
  /\ h \in 1..Len(samples)
  /\ samples[h].pc = "awaitRender"
  /\ LET s == samples[h].socket
         nearbyAssets == RenderElements(outcome)
     IN emitted' = [emitted EXCEPT ![s] = Append(@,
           Event("off_boundaries", "off_boundaries", "off_boundaries", samples[h].refinedPosition,
                 OffBoundariesAssets(nearbyAssets, Val(samples[h].refinedPosition)), h))]
  /\ samples' = [samples EXCEPT ![h].pc = "done",
                                ![h].nearbyAssets = Some(RenderElements(outcome)),
                                ![h].lookupFailed = LookupFailed(outcome)]
  /\ UNCHANGED <<connectedClients, clientSockets, socketStatus, client, handled>>
  /\ UNCHANGED <<resolverVars, assetVars>>

MapDeleteNothing(keys, s) == keys

\* Map.prototype.delete, on the key set of the map
MapDelete(keys, s) == keys \ {s}

\* clientManager.getConnectedClients
getConnectedClients == connectedClients

\* clientManager.isClientConnected: the socket of the id, if any, is connected
isClientConnected(id) == id \in clientSockets /\ socketStatus[id] = "connected"

\* socket.on('disconnect')
Disconnect(s) ==
  /\ socketStatus[s] = "connected"
  /\ socketStatus' = [socketStatus EXCEPT ![s] = "disconnected"]
  /\ connectedClients' = MapDelete(connectedClients, s)
  /\ clientSockets' = MapDelete(clientSockets, s)
  /\ UNCHANGED <<client, samples, emitted, handled>>
  /\ UNCHANGED <<resolverVars, assetVars>>

Next ==
  \/ \E s \in Sessions : Connect(s)
  \/ \E s \in Sessions, raw \in RawPositions : UserPosition(s, raw)
  \/ \E h \in 1..MaxSamples, o \in DbOutcomes : TriangulateReturns(h, o)
  \/ \E h \in 1..MaxSamples, o \in LookupOutcomes : RenderReturns(h, o)
  \/ \E s \in Sessions : Disconnect(s)

Spec == Init /\ [][Next]_vars

\* the number of pings the clients send, and of the position samples sent
\* along with them
MaxPings == 1
MaxSessionSamples == 2

Pongs(s) == Len(SelectSeq(emitted[s], LAMBDA e : e.event = "pong"))

\* socket.on('ping'): the pong is sent back on the same socket
Ping(s) ==
  /\ socketStatus[s] = "connected"
  /\ Pongs(1) + Pongs(2) < MaxPings
  /\ emitted' = [emitted EXCEPT ![s] = Append(@, Event("pong", "", "Pong!", Unset, <<>>, 0))]
  /\ UNCHANGED <<connectedClients, clientSockets, socketStatus, client, samples, handled>>
  /\ UNCHANGED <<resolverVars, assetVars>>

\* socket.on('user_position') of a client that also pings
SessionUserPosition(s, raw) ==
  /\ Len(samples) < MaxSessionSamples
  /\ UserPosition(s, raw)

\* the handlers of all sockets, ping included
NextSessions ==
  \/ \E s \in Sessions : Connect(s)
  \/ \E s \in Sessions, raw \in RawPositions : SessionUserPosition(s, raw)
  \/ \E h \in 1..MaxSamples, o \in DbOutcomes : TriangulateReturns(h, o)
  \/ \E h \in 1..MaxSamples, o \in LookupOutcomes : RenderReturns(h, o)
  \/ \E s \in Sessions : Ping(s)
  \/ \E s \in Sessions : Disconnect(s)

SpecSessions == Init /\ [][NextSessions]_vars

\* one client alone that stays connected and sends a longer stream of samples,
\* while the refinement query answers no row or fails
MaxLoneSamples == 4

RefinementDown == {o \in DbOutcomes : IsFallback(o)}

LoneUserPosition(raw) == ReceivePosition(1, raw, MaxLoneSamples)

NextLone ==
  \/ Connect(1)
  \/ \E raw \in RawPositions : LoneUserPosition(raw)
  \/ \E h \in 1..MaxLoneSamples, o \in RefinementDown : TriangulateReturns(h, o)
  \/ \E h \in 1..MaxLoneSamples, o \in LookupOutcomes : RenderReturns(h, o)

SpecLone == Init /\ [][NextLone]_vars

\* the handlers of one socket whose messages may carry invalid coordinates
PositionData == RawPositions \cup InvalidData

NextAnyData ==
  \/ Connect(1)
  \/ \E raw \in PositionData : UserPosition(1, raw)
  \/ \E h \in 1..MaxSamples, o \in DbOutcomes : TriangulateReturns(h, o)
  \/ \E h \in 1..MaxSamples, o \in LookupOutcomes : RenderReturns(h, o)
  \/ Disconnect(1)

SpecAnyData == Init /\ [][NextAnyData]_vars

TypeOK ==
  /\ connectedClients \subseteq Sessions
  /\ clientSockets \subseteq Sessions
  /\ \A s \in Sessions : client[s].state \in {"accept", "ok", "off_boundaries"}
  /\ Len(samples) <= MaxSamples

\* ------------------------------------------------------- claim vocabulary
\* the step in which the handler of sample h resumes after triangulateCoordinate
Resumed(h) == samples[h].pc = "awaitTriangulate" /\ samples'[h].pc # "awaitTriangulate"

\* the socket of sample h, the ClientInfo the resuming handler finds
Sid(h) == samples[h].socket
Found(h) == client[Sid(h)]

\* sample h is not the first position of its socket
NonFirst(h) == Found(h).initialPosition # Unset

\* the refined position of the resuming sample, its distance from the reference
RefinedAt(h) == Val(samples'[h].refinedPosition)
Dist(h) == Abs(RefinedAt(h) - Val(Found(h).initialPosition))

\* the step appends exactly the event e to the socket of sample h
EmitsOnly(h, e) == emitted' = [emitted EXCEPT ![Sid(h)] = Append(@, e)]

StatusEvent(st, msg, h) ==
  [event |-> "position_status", state |-> st, message |-> msg,
   position |-> Some(RefinedAt(h)), assets |-> <<>>, sample |-> h]

\* sample h has an event of kind ev among the emitted events of socket s
HasEvent(s, ev, h) ==
  \E j \in 1..Len(emitted[s]) : emitted[s][j].event = ev /\ emitted[s][j].sample = h

\* C1: a non-first sample farther than 50 m from the reference, handled while
\* the state is 'ok', sets the state to 'off_boundaries'; its handler then
\* awaits RenderElements and can end only by emitting the off_boundaries event
\* of that sample.
C1_BoundaryCrossing ==
  [][\A h \in 1..Len(samples) :
       /\ (Resumed(h) /\ NonFirst(h) /\ Dist(h) > BoundaryDistance /\ Found(h).state = "ok")
            => /\ client'[Sid(h)].state = "off_boundaries"
               /\ samples'[h].pc = "awaitRender"
       /\ (samples[h].pc = "awaitRender" /\ samples'[h].pc # "awaitRender")
            => /\ samples'[h].pc = "done"
               /\ \E e \in {emitted'[Sid(h)][Len(emitted'[Sid(h)])]} :
                    /\ EmitsOnly(h, e)
                    /\ e.event = "off_boundaries"
                    /\ e.sample = h
                    /\ e.position = samples[h].refinedPosition]_vars

C1_Witness ==
  \E s \in Sessions : \E i \in 1..Len(handled[s]) :
    /\ handled[s][i].from = "ok"
    /\ handled[s][i].to = "off_boundaries"
    /\ samples[handled[s][i].sample].pc = "done"
    /\ HasEvent(s, "off_boundaries", handled[s][i].sample)

\* C2 as stated: the first sample of a socket sets the reference to the
\* refined sample, makes the state 'ok' (Settled), emits the 'Initial position
\* recorded' event and is not measured against the boundary.
C2_FirstSampleSettles ==
  [][\A h \in 1..Len(samples) :
       (Resumed(h) /\ ~NonFirst(h))
         => /\ client'[Sid(h)].initialPosition = Some(RefinedAt(h))
            /\ client'[Sid(h)].state = "ok"
            /\ \E st \in {"accept", "ok"} : EmitsOnly(h, StatusEvent(st, "Initial position recorded", h))
            /\ samples'[h].distance = Unset
            /\ samples'[h].pc = "done"]_vars

\* C2 amended: the first sample of a socket sets the reference to the refined
\* sample, leaves the state 'accept' (Initializing), emits the 'Initial
\* position recorded' event with state 'accept' and is not measured against
\* the boundary.
C2_FirstSampleRecorded ==
  [][\A h \in 1..Len(samples) :
       (Resumed(h) /\ ~NonFirst(h))
         => /\ client'[Sid(h)].initialPosition = Some(RefinedAt(h))
            /\ client'[Sid(h)].currentPosition = Some(RefinedAt(h))
            /\ client'[Sid(h)].state = "accept"
            /\ EmitsOnly(h, StatusEvent("accept", "Initial position recorded", h))
            /\ samples'[h].distance = Unset
            /\ samples'[h].pc = "done"]_vars

C2_Witness ==
  \E s \in Sessions :
    /\ Len(handled[s]) = 1
    /\ client[s].initialPosition = samples[handled[s][1].sample].refinedPosition
    /\ client[s].initialPosition # Unset
    /\ client[s].state = "accept"
    /\ HasEvent(s, "position_status", handled[s][1].sample)

\* C3: a sample within 50 m of the reference, handled while the state is
\* 'off_boundaries', sets the state to 'ok' and emits the 'Back within
\* boundaries' event of that sample in the same step.
C3_ReturnInRange ==
  [][\A h \in 1..Len(samples) :
       (Resumed(h) /\ NonFirst(h) /\ Dist(h) <= BoundaryDistance /\ Found(h).state = "off_boundaries")
         => /\ client'[Sid(h)].state = "ok"
            /\ EmitsOnly(h, StatusEvent("ok", "Back within boundaries", h))
            /\ samples'[h].pc = "done"]_vars

C3_Witness ==
  \E s \in Sessions : \E i \in 1..Len(handled[s]) :
    /\ handled[s][i].from = "off_boundaries"
    /\ handled[s][i].to = "ok"
    /\ \E j \in 1..Len(emitted[s]) :
         /\ emitted[s][j].sample = handled[s][i].sample
         /\ emitted[s][j].message = "Back within boundaries"

\* a sample that neither crosses nor returns: within the boundary while 'ok',
\* or beyond it while 'off_boundaries'
Stays(h) ==
  /\ Resumed(h)
  /\ NonFirst(h)
  /\ \/ Dist(h) <= BoundaryDistance /\ Found(h).state = "ok"
     \/ Dist(h) > BoundaryDistance /\ Found(h).state = "off_boundaries"

\* C4 as stated: a non-first sample that neither crosses nor returns leaves
\* the state unchanged and emits the 'Position updated' event of that sample.
C4_StayEmitsUpdate ==
  [][\A h \in 1..Len(samples) :
       Stays(h)
         => /\ client'[Sid(h)].state = Found(h).state
            /\ EmitsOnly(h, StatusEvent(Found(h).state, "Position updated", h))]_vars

\* C4 amended: a non-first sample that neither crosses nor returns leaves the
\* state unchanged, emits no event and ends its handler.
C4_StaySilent ==
  [][\A h \in 1..Len(samples) :
       Stays(h)
         => /\ client'[Sid(h)].state = Found(h).state
            /\ emitted' = emitted
            /\ samples'[h].pc = "done"]_vars

C4_Witness ==
  \E s \in Sessions : \E i \in 2..Len(handled[s]) :
    /\ handled[s][i].from \in {"ok", "off_boundaries"}
    /\ handled[s][i].to = handled[s][i].from
    /\ samples[handled[s][i].sample].pc = "done"
    /\ ~ \E j \in 1..Len(emitted[s]) : emitted[s][j].sample = handled[s][i].sample

\* C5: a sample at exactly 50 m from the reference never leaves the state
\* 'off_boundaries' behind and, handled while 'off_boundaries', returns the
\* session to 'ok'; a sample at more than 50 m handled while 'ok' crosses.
C5_ThresholdInclusive ==
  [][\A h \in 1..Len(samples) :
       (Resumed(h) /\ NonFirst(h))
         => /\ Dist(h) = BoundaryDistance
                 => /\ client'[Sid(h)].state # "off_boundaries"
                    /\ samples'[h].pc = "done"
            /\ (Dist(h) = BoundaryDistance /\ Found(h).state = "off_boundaries")
                 => client'[Sid(h)].state = "ok"
            /\ (Dist(h) > BoundaryDistance /\ Found(h).state = "ok")
                 => client'[Sid(h)].state = "off_boundaries"]_vars

C5_Witness ==
  \E s \in Sessions : \E i, k \in 1..Len(handled[s]) :
    /\ samples[handled[s][i].sample].distance = Some(BoundaryDistance)
    /\ handled[s][i].from = "off_boundaries"
    /\ handled[s][i].to = "ok"
    /\ samples[handled[s][k].sample].distance = Some(BoundaryDistance + 1)
    /\ handled[s][k].to = "off_boundaries"
\* C6: once the initialPosition of a socket is set, no step changes it.
C6_ReferenceFixed ==
  [][\A s \in Sessions :
       client[s].initialPosition # Unset
         => client'[s].initialPosition = client[s].initialPosition]_vars

C6_Witness ==
  \E s \in Sessions :
    /\ Len(handled[s]) >= 3
    /\ client[s].initialPosition = samples[handled[s][1].sample].refinedPosition
    /\ client[s].currentPosition # client[s].initialPosition
    /\ \E i, k \in 2..Len(handled[s]) :
         /\ i < k
         /\ handled[s][i].to = "off_boundaries"
         /\ handled[s][k].from = "off_boundaries"
         /\ handled[s][k].to = "ok"

\* C7 as stated: the state of a socket changes only from 'accept' to 'ok',
\* from 'ok' to 'off_boundaries' and from 'off_boundaries' to 'ok'.
C7_ThreeTransitions ==
  [][\A s \in Sessions :
       client'[s].state # client[s].state
         => <<client[s].state, client'[s].state>> \in
              {<<"accept", "ok">>, <<"ok", "off_boundaries">>, <<"off_boundaries", "ok">>}]_vars

\* C7 amended: the state of a socket changes only from 'accept' to 'ok', from
\* 'accept' to 'off_boundaries', from 'ok' to 'off_boundaries' and from
\* 'off_boundaries' to 'ok'.
C7_FourTransitions ==
  [][\A s \in Sessions :
       client'[s].state # client[s].state
         => <<client[s].state, client'[s].state>> \in
              {<<"accept", "ok">>, <<"accept", "off_boundaries">>,
               <<"ok", "off_boundaries">>, <<"off_boundaries", "ok">>}]_vars

C7_Witness ==
  \E s \in Sessions : \E i \in 1..Len(handled[s]) :
    /\ handled[s][i].from = "accept"
    /\ handled[s][i].to = "off_boundaries"
    /\ client[s].state = "ok"

\* C8: once the state of a socket is 'ok' or 'off_boundaries' it is never
\* 'accept' again, whatever samples of the socket are in flight.
C8_AcceptNotReentered ==
  [][\A s \in Sessions :
       client[s].state # "accept" => client'[s].state # "accept"]_vars

\* the sample of the socket received first is handled after the state has
\* left 'accept'
C8_Witness ==
  \E s \in Sessions : \E i \in 2..Len(handled[s]) :
    /\ \A k \in 1..Len(handled[s]) : handled[s][i].sample <= handled[s][k].sample
    /\ handled[s][i].from # "accept"
    /\ client[s].state # "accept"

\* the sample of socket s that was received first
FirstSampleOf(s) ==
  CHOOSE h \in 1..Len(samples) :
    samples[h].socket = s /\ \A g \in 1..(h - 1) : samples[g].socket # s

\* C9: the samples of a socket are evaluated in the order received, and the
\* initialPosition is the refined first-received sample.
C9_ArrivalOrder ==
  \A s \in Sessions :
    /\ \A i, k \in 1..Len(handled[s]) :
         i < k => handled[s][i].sample < handled[s][k].sample
    /\ client[s].initialPosition # Unset
         => client[s].initialPosition = samples[FirstSampleOf(s)].refinedPosition

\* the place of sample h in the evaluation order of socket s
HandledIndex(s, h) == CHOOSE i \in 1..Len(handled[s]) : handled[s][i].sample = h

\* C10: the events of a socket are emitted in the order of the evaluations
\* (state changes) that caused them; in particular the off_boundaries event of
\* a crossing is not emitted after the 'Back within boundaries' event of a
\* later return.
C10_EventsInTransitionOrder ==
  \A s \in Sessions : \A i, k \in 1..Len(emitted[s]) :
       (i < k /\ emitted[s][i].sample > 0 /\ emitted[s][k].sample > 0)
         => HandledIndex(s, emitted[s][i].sample) < HandledIndex(s, emitted[s][k].sample)
\* the events the step appends to the socket of sample h
NewEvents(h) == SubSeq(emitted'[Sid(h)], Len(emitted[Sid(h)]) + 1, Len(emitted'[Sid(h)]))

\* C12: when the refinement query throws or returns no row, the raw
\* coordinate of the sample is the refined position, the sample takes the
\* ordinary first-position, crossing and return rules with it, its handler is
\* not aborted and no error event is emitted.
C12_RefinementFallback ==
  [][\A h \in 1..Len(samples) :
       (Resumed(h) /\ samples'[h].fallback)
         => /\ samples'[h].refinedPosition = Some(samples[h].data)
            /\ client'[Sid(h)].currentPosition = Some(samples[h].data)
            /\ \A i \in 1..Len(NewEvents(h)) : NewEvents(h)[i].event # "error"
            /\ ~NonFirst(h) => client'[Sid(h)].initialPosition = Some(samples[h].data)
            /\ NonFirst(h) =>
                 LET d == Abs(samples[h].data - Val(Found(h).initialPosition))
                 IN /\ (d > BoundaryDistance /\ Found(h).state \in {"accept", "ok"})
                         => client'[Sid(h)].state = "off_boundaries" /\ samples'[h].pc = "awaitRender"
                    /\ (d <= BoundaryDistance /\ Found(h).state \in {"accept", "off_boundaries"})
                         => client'[Sid(h)].state = "ok" /\ Len(NewEvents(h)) = 1]_vars

C12_Witness ==
  \E s \in Sessions : \E i, k \in 1..Len(handled[s]) :
    /\ samples[handled[s][i].sample].fallback
    /\ handled[s][i].to = "off_boundaries"
    /\ samples[handled[s][i].sample].distance = Some(BoundaryDistance + 1)
    /\ samples[handled[s][k].sample].fallback
    /\ handled[s][k].from = "off_boundaries"
    /\ handled[s][k].to = "ok"

\* C13: a sample whose coordinate is still missing or not a number after
\* the refinement, or whose handling ends in the error event, leaves the
\* ClientInfo of its socket (initialPosition, currentPosition, state)
\* unchanged.
C13_InvalidSampleHoldsState ==
  [][\A h \in 1..Len(samples) :
       (Resumed(h) /\ (\/ RefinedAt(h) \in InvalidData
                       \/ \E i \in 1..Len(NewEvents(h)) : NewEvents(h)[i].event = "error"))
         => client'[Sid(h)] = client[Sid(h)]]_vars

\* C14: once the disconnect of a socket has been handled, its ClientInfo is
\* not changed and nothing is emitted on it.
C14_QuietAfterDisconnect ==
  [][\A s \in Sessions :
       socketStatus[s] = "disconnected"
         => client'[s] = client[s] /\ emitted'[s] = emitted[s]]_vars

\* ---------------------------------------------------------------------------
\* The placement-vector resolver (reverseVectorAlgorithm.ts).
\*
\* Angles are kept as their degree names and restricted to right angles, so
\* that sines and cosines are -1, 0 or 1 and every rotation is computed
\* exactly in integers (metres).  Non-finite numbers keep their JS names.
\* ---------------------------------------------------------------------------
DEFAULT_H0 == 370

NonFinite == {"NaN", "Infinity"}
FiniteLats == {"0", "90", "-90"}
FiniteLons == {"0", "90", "180"}
Lats == FiniteLats \cup NonFinite
Lons == FiniteLons \cup NonFinite
Heights == {Unset, Some(0), Some(400)}
Geo == [lat : Lats, lon : Lons, h : Heights]
RelativeVecs == {[e |-> 0, n |-> 0, u |-> 0], [e |-> 5, n |-> 10, u |-> 0], [e |-> -3, n |-> 2, u |-> 7]}

isFinite(x) == x \notin {"NaN", "Infinity", "-Infinity"}

\* Math.sin(deg2rad(deg)) and Math.cos(deg2rad(deg)) at the right angles; the
\* value at a non-finite angle is NaN, carried by the nan flag of the result.
Sin(deg) == CASE deg = "90" -> 1 [] deg = "-90" -> -1 [] OTHER -> 0
Cos(deg) == CASE deg = "0" -> 1 [] deg = "180" -> -1 [] OTHER -> 0

\* WGS84: a, and at the poles N = a / sqrt(1 - e2) and N (1 - e2) = b, in metres.
WGS84_A == 6378137
WGS84_N_POLE == 6399594
WGS84_B == 6356752
PrimeVerticalRadius(lat) == IF Sin(lat) = 0 THEN WGS84_A ELSE WGS84_N_POLE

geodeticToEcef(lat, lon, h) ==
  [X |-> (PrimeVerticalRadius(lat) + h) * Cos(lat) * Cos(lon),
   Y |-> (PrimeVerticalRadius(lat) + h) * Cos(lat) * Sin(lon),
   Z |-> (WGS84_B + h) * Sin(lat)]

enuToEcefDelta(e, n, u, lat, lon) ==
  [dX |-> (0 - Sin(lon)) * e - Sin(lat) * Cos(lon) * n + Cos(lat) * Cos(lon) * u,
   dY |-> Cos(lon) * e - Sin(lat) * Sin(lon) * n + Cos(lat) * Sin(lon) * u,
   dZ |-> Cos(lat) * n + Sin(lat) * u]

ecefDeltaToEnuEastFlipped(dX, dY, dZ, lat, lon) ==
  [e |-> Sin(lon) * dX + Cos(lon) * dY,
   n |-> (0 - Sin(lat)) * Cos(lon) * dX - Sin(lat) * Sin(lon) * dY + Cos(lat) * dZ,
   u |-> Cos(lat) * Cos(lon) * dX + Cos(lat) * Sin(lon) * dY + Sin(lat) * dZ]

ecefDeltaToEnu(dX, dY, dZ, lat, lon) ==
  [e |-> (0 - Sin(lon)) * dX + Cos(lon) * dY,
   n |-> (0 - Sin(lat)) * Cos(lon) * dX - Sin(lat) * Sin(lon) * dY + Cos(lat) * dZ,
   u |-> Cos(lat) * Cos(lon) * dX + Cos(lat) * Sin(lon) * dY + Sin(lat) * dZ]

InvalidLatLonCreatorOnly(creator, user) ==
  ~isFinite(creator.lat) \/ ~isFinite(creator.lon)

InvalidLatLon(creator, user) ==
  \/ ~isFinite(creator.lat) \/ ~isFinite(creator.lon)
  \/ ~isFinite(user.lat) \/ ~isFinite(user.lon)

HeightOrDefaultFalsy(g) == IF g.h = Unset \/ g.h = Some(0) THEN DEFAULT_H0 ELSE Val(g.h)

HeightOrDefault(g) == IF g.h = Unset THEN DEFAULT_H0 ELSE Val(g.h)

\* the outcome of a call that threw: nothing was converted, nothing returned
Thrown(msg) ==
  [ok |-> FALSE, error |-> msg, conversions |-> 0, hC |-> Unset, hU |-> Unset,
   vec |-> Unset, nan |-> FALSE, assetEcef |-> Unset, userEcef |-> Unset]

\* STEPs 1-8, after validation
PlacementSteps(creator, user, v) ==
  LET hC == HeightOrDefault(creator)
      hU == HeightOrDefault(user)
      Pc == geodeticToEcef(creator.lat, creator.lon, hC)
      delta_ca == enuToEcefDelta(v.e, v.n, v.u, creator.lat, creator.lon)
      Pa == [X |-> Pc.X + delta_ca.dX, Y |-> Pc.Y + delta_ca.dY, Z |-> Pc.Z + delta_ca.dZ]
      Pu == geodeticToEcef(user.lat, user.lon, hU)
      d_ecef == [dX |-> Pa.X - Pu.X, dY |-> Pa.Y - Pu.Y, dZ |-> Pa.Z - Pu.Z]
      enuResult == ecefDeltaToEnu(d_ecef.dX, d_ecef.dY, d_ecef.dZ, user.lat, user.lon)
  IN [ok |-> TRUE, error |-> "", conversions |-> 4, hC |-> Some(hC), hU |-> Some(hU),
      vec |-> Some(enuResult),
      nan |-> \E x \in {creator.lat, creator.lon, user.lat, user.lon} : ~isFinite(x),
      assetEcef |-> Some(Pa), userEcef |-> Some(Pu)]

computeAssetPlacementVector(creator, user, v) ==
  IF InvalidLatLon(creator, user) THEN Thrown("Invalid lat/lon.")
  ELSE PlacementSteps(creator, user, v)

computeAssetPlacementVectorWithDebug(creator, user, v) ==
  IF InvalidLatLon(creator, user) THEN Thrown("Invalid lat/lon.")
  ELSE PlacementSteps(creator, user, v)

computeAssetPlacementVectorDecimal(creator, user, v) ==
  IF InvalidLatLon(creator, user) THEN Thrown("Invalid lat/lon.")
  ELSE PlacementSteps(creator, user, v)

\* what the caller of each variant receives: the plain and the Decimal
\* variant return the vector alone, the debug variant adds the ECEF points
Returned(variant, r) ==
  IF variant = "WithDebug" THEN r
  ELSE [r EXCEPT !.assetEcef = Unset, !.userEcef = Unset]

ResolverCall(variant, creator, user, v, r) ==
  /\ resolved' = <<[variant |-> variant, creator |-> creator, user |-> user,
                    vCA |-> v, result |-> Returned(variant, r)]>>
  /\ UNCHANGED <<socketVars, assetVars>>

CallResolver ==
  /\ resolved = <<>>
  /\ \E creator \in Geo, user \in Geo, v \in RelativeVecs :
      ResolverCall("Number", creator, user, v, computeAssetPlacementVector(creator, user, v))

CallResolverWithDebug ==
  /\ resolved = <<>>
  /\ \E creator \in Geo, user \in Geo, v \in RelativeVecs :
      ResolverCall("WithDebug", creator, user, v,
                 computeAssetPlacementVectorWithDebug(creator, user, v))

CallResolverDecimal ==
  /\ resolved = <<>>
  /\ \E creator \in Geo, user \in Geo, v \in RelativeVecs :
      ResolverCall("Decimal", creator, user, v,
                 computeAssetPlacementVectorDecimal(creator, user, v))

NextResolver == CallResolver \/ CallResolverWithDebug \/ CallResolverDecimal

SpecResolver == Init /\ [][NextResolver]_vars

\* the resolver call the state holds, when there is one
Called == resolved # <<>>
TheCall == resolved[1]


LatLons(c) == {c.creator.lat, c.creator.lon, c.user.lat, c.user.lon}

\* C15: a call of the resolver (plain, debug or Decimal variant) in which the
\* latitude or longitude of the creator or of the observer is not finite
\* fails with "Invalid lat/lon." before any conversion is made, and returns
\* no vector, partial or otherwise.
C15_InvalidLatLonRejected ==
  Called =>
    ((\E x \in LatLons(TheCall) : ~isFinite(x)) =>
       /\ ~TheCall.result.ok
       /\ TheCall.result.error = "Invalid lat/lon."
       /\ TheCall.result.conversions = 0
       /\ TheCall.result.vec = Unset
       /\ TheCall.result.assetEcef = Unset
       /\ TheCall.result.userEcef = Unset)

C15_Witness ==
  /\ Called
  /\ TheCall.variant = "Decimal"
  /\ isFinite(TheCall.creator.lat) /\ isFinite(TheCall.creator.lon)
  /\ isFinite(TheCall.user.lat) /\ TheCall.user.lon = "NaN"
  /\ ~TheCall.result.ok
  /\ TheCall.result.vec = Unset

\* C16: when the observer stands exactly where the creator stood (same
\* latitude, longitude and height), the resolver returns the creator-to-object
\* vector it was given.
C16_SelfObservation ==
  Called =>
    ((TheCall.creator = TheCall.user /\ TheCall.result.ok) =>
       /\ ~TheCall.result.nan
       /\ Val(TheCall.result.vec) = TheCall.vCA)

C16_Witness ==
  /\ Called
  /\ TheCall.creator = [lat |-> "-90", lon |-> "90", h |-> Some(400)]
  /\ TheCall.user = TheCall.creator
  /\ TheCall.vCA = [e |-> -3, n |-> 2, u |-> 7]
  /\ TheCall.result.ok
  /\ Val(TheCall.result.vec) = TheCall.vCA

\* the height the computation must use for a position
HeightUsed(g) == IF g.h = Unset THEN 370 ELSE Val(g.h)

\* C18: a position without a height is computed at height 370 and a position
\* with a height at that height, for the creator and for the observer each on
\* its own; the call returns what the call with the heights written out returns.
C18_DefaultHeight ==
  Called =>
    (TheCall.result.ok =>
       /\ TheCall.result.hC = Some(HeightUsed(TheCall.creator))
       /\ TheCall.result.hU = Some(HeightUsed(TheCall.user))
       /\ TheCall.result.vec =
            computeAssetPlacementVector(
              [TheCall.creator EXCEPT !.h = Some(HeightUsed(TheCall.creator))],
              [TheCall.user EXCEPT !.h = Some(HeightUsed(TheCall.user))],
              TheCall.vCA).vec)

C18_Witness ==
  /\ Called
  /\ TheCall.result.ok
  /\ TheCall.creator.h = Unset
  /\ TheCall.user.h = Some(0)
  /\ TheCall.creator.lat = TheCall.user.lat
  /\ TheCall.creator.lon = TheCall.user.lon
  /\ TheCall.result.hC = Some(370)
  /\ TheCall.result.hU = Some(0)
  /\ Val(TheCall.result.vec).u = TheCall.vCA.u + 370


\* ---------------------------------------------------------------------------
\* Asset creation (index.ts: POST /receive_data_about_assets, processAssetData)
\* and the rendering of the stored assets (socketHandler.ts: getNearbyAssets,
\* RenderElements).  A field of a request body is Unset when the body lacks it.
\* ---------------------------------------------------------------------------
MaxRequests == 2

BodyLats == {"0", "90", "-90"}
BodyLons == {"0", "90"}
BodyVectors == {[e |-> 5, n |-> 10, u |-> 0]}

\* the body README-AR-VECTORS.md documents, and the body the handler reads
DocumentedBodies ==
  [userLatitude : {Some(x) : x \in BodyLats}, userLongitude : {Some(x) : x \in BodyLons},
   latitude : {Unset}, longitude : {Unset},
   position : {Some(v) : v \in BodyVectors}]
ReadBodies ==
  [userLatitude : {Unset}, userLongitude : {Unset},
   latitude : {Some(x) : x \in BodyLats}, longitude : {Some(x) : x \in BodyLons},
   position : {Unset} \cup {Some(v) : v \in BodyVectors}]
Bodies == DocumentedBodies \cup ReadBodies

\* !x of JavaScript for an optional number: undefined, 0 and NaN are falsy
\* (an array, the position, is falsy only when it is missing)
Falsy(x) == x = Unset \/ Val(x) = "0" \/ Val(x) = "NaN"

MissingRequiredFieldsNullish(userLatitude, userLongitude, position) ==
  userLatitude = Unset \/ userLongitude = Unset \/ position = Unset

MissingRequiredFields(userLatitude, userLongitude, position) ==
  Falsy(userLatitude) \/ Falsy(userLongitude) \/ position = Unset

MissingMessage == "Missing required fields: userLatitude, userLongitude, position"

\* triangulateCoordinates: the row of triangulate_coordinate, or the raw input
AssetRefinedPoint == [lat |-> "90", lon |-> "0"]
AssetDbOutcomes ==
  {[kind |-> "row", pos |-> AssetRefinedPoint],
   [kind |-> "error", pos |-> AssetRefinedPoint]}
triangulateCoordinates(lon, lat, outcome) ==
  IF outcome.kind = "row" THEN [refinedLat |-> outcome.pos.lat, refinedLon |-> outcome.pos.lon]
  ELSE [refinedLat |-> lat, refinedLon |-> lon]

\* the geodetic point at an ENU offset from an origin, named by its construction
enuOffsetToGeodetic(lat, lon, e, n, u) ==
  [lat |-> <<"lat", lat, lon, e, n, u>>, lon |-> <<"lon", lat, lon, e, n, u>>,
   h |-> <<"h", lat, lon, e, n, u>>]

ST_MakePoint(lon, lat) == Some(<<lon, lat>>)

Response(status, message, error, id) ==
  [status |-> status, message |-> message, error |-> error, id |-> id]
ErrorResponse(error) == Response(500, "Error processing data", error, Unset)
OkResponse(id) == Response(200, "Object position calculated successfully", "", Some(id))

NewRequest(body) ==
  [body |-> body, userLatitude |-> body.latitude, userLongitude |-> body.longitude,
   position |-> body.position, refinedUser |-> Unset, objectCoords |-> Unset,
   objectid |-> Unset, response |-> Unset, pc |-> "validate"]

\* the handler reads the body and calls processAssetData, which validates and
\* then awaits the refinement
PostAsset(body) ==
  /\ Len(requests) < MaxRequests
  /\ LET r == NewRequest(body) IN
       requests' = Append(requests,
         IF MissingRequiredFields(r.userLatitude, r.userLongitude, r.position)
         THEN [r EXCEPT !.response = Some(ErrorResponse(MissingMessage)), !.pc = "done"]
         ELSE [r EXCEPT !.pc = "awaitTriangulate"])
  /\ UNCHANGED <<rawfrontend, rendered, socketVars, resolverVars>>

SetRequest(i, r) == requests' = [requests EXCEPT ![i] = r]

\* triangulateCoordinates returns (it never throws); the object position is
\* computed and the record is handed to rawFrontendRepo.save
AssetTriangulateReturns(i, outcome) ==
  /\ i \in 1..Len(requests)
  /\ requests[i].pc = "awaitTriangulate"
  /\ LET r == requests[i]
         refinedUser == triangulateCoordinates(Val(r.userLongitude), Val(r.userLatitude), outcome)
         objectCoords == enuOffsetToGeodetic(refinedUser.refinedLat, refinedUser.refinedLon,
                           Val(r.position).e, Val(r.position).n, Val(r.position).u)
     IN SetRequest(i, [r EXCEPT !.refinedUser = Some(refinedUser),
                                !.objectCoords = Some(objectCoords),
                                !.pc = "awaitSave"])
  /\ UNCHANGED <<rawfrontend, rendered, socketVars, resolverVars>>

recordData(refinedUser, objectCoords, objectid) ==
  [objectid |-> objectid,
   objectlongitude |-> objectCoords.lon, objectlatitude |-> objectCoords.lat,
   userlongitude |-> refinedUser.refinedLon, userlatitude |-> refinedUser.refinedLat,
   coordinates |-> <<objectCoords.lat, objectCoords.lon, objectCoords.h>>,
   object_location |-> Unset, user_location |-> Unset]

\* rawFrontendRepo.save returns the inserted row, or throws
SaveReturns(i, ok) ==
  /\ i \in 1..Len(requests)
  /\ requests[i].pc = "awaitSave"
  /\ LET r == requests[i]
         objectid == Len(rawfrontend) + 1
     IN IF ok
        THEN /\ rawfrontend' = Append(rawfrontend,
                  recordData(Val(r.refinedUser), Val(r.objectCoords), objectid))
             /\ SetRequest(i, [r EXCEPT !.objectid = Some(objectid), !.pc = "awaitUpdate"])
        ELSE /\ rawfrontend' = rawfrontend
             /\ SetRequest(i, [r EXCEPT !.response = Some(ErrorResponse("save failed")),
                                        !.pc = "done"])
  /\ UNCHANGED <<rendered, socketVars, resolverVars>>

UpdateMatchesAll(row, objectid) == TRUE

\* WHERE objectid = $5
UpdateMatches(row, objectid) == row.objectid = objectid

\* UPDATE public.rawfrontend SET object_location = ..., user_location = ...
UpdateGeometry(rows, objectid, refinedUser, objectCoords) ==
  [k \in DOMAIN rows |->
     IF UpdateMatches(rows[k], objectid)
     THEN [rows[k] EXCEPT
             !.object_location = ST_MakePoint(objectCoords.lon, objectCoords.lat),
             !.user_location = ST_MakePoint(refinedUser.refinedLon, refinedUser.refinedLat)]
     ELSE rows[k]]

\* the UPDATE query returns and the handler answers, or it throws
UpdateReturns(i, ok) ==
  /\ i \in 1..Len(requests)
  /\ requests[i].pc = "awaitUpdate"
  /\ LET r == requests[i] IN
       IF ok
       THEN /\ rawfrontend' = UpdateGeometry(rawfrontend, Val(r.objectid),
                                             Val(r.refinedUser), Val(r.objectCoords))
            /\ SetRequest(i, [r EXCEPT !.response = Some(OkResponse(Val(r.objectid))),
                                       !.pc = "done"])
       ELSE /\ rawfrontend' = rawfrontend
            /\ SetRequest(i, [r EXCEPT !.response = Some(ErrorResponse("update failed")),
                                       !.pc = "done"])
  /\ UNCHANGED <<rendered, socketVars, resolverVars>>

\* the origin a stored object position was offset from
OriginOf(row) == [lat |-> row.coordinates[1][2], lon |-> row.coordinates[1][3]]

\* ST_DWithin(..., 100): the vectors of BodyVectors are shorter than 100 m and
\* distinct right-angle points are farther apart, so an object is within the
\* radius of a position exactly when it was offset from that position
Nearby(row, position) ==
  row.object_location # Unset /\ OriginOf(row) = [lat |-> position.lat, lon |-> position.lon]

AssetData(row) ==
  [id |-> row.objectid, latitude |-> row.objectlatitude, longitude |-> row.objectlongitude,
   creator_latitude |-> row.userlatitude, creator_longitude |-> row.userlongitude,
   creator_altitude |-> 370, vector_position |-> [x |-> 0, y |-> 0, z |-> 0],
   coordinates |-> row.coordinates]

getNearbyAssets(rows, position, kind) ==
  LET Near(row) == Nearby(row, position)
      result == SelectSeq(rows, Near)
  IN IF kind = "rows" THEN [k \in 1..Len(result) |-> AssetData(result[k])] ELSE <<>>

\* one entry of assetsWithVectors: the asset, the arguments the resolver got,
\* and vector_relative unless the resolver threw
WithVector(asset, position) ==
  LET creator == [lat |-> asset.creator_latitude, lon |-> asset.creator_longitude,
                  h |-> Some(asset.creator_altitude)]
      user == [lat |-> position.lat, lon |-> position.lon, h |-> Some(370)]
      vCA == [e |-> asset.vector_position.x, n |-> asset.vector_position.y,
              u |-> asset.vector_position.z]
      result == computeAssetPlacementVector(creator, user, vCA)
  IN [asset |-> asset, creator |-> creator, user |-> user, vCA |-> vCA,
      vector_relative |-> result.vec]

Resolvable(entry) == entry.vector_relative # Unset

assetsWithVectorsDropFailed(nearbyAssets, position) ==
  SelectSeq([k \in 1..Len(nearbyAssets) |-> WithVector(nearbyAssets[k], position)], Resolvable)

\* nearbyAssets.map(asset => ...)
assetsWithVectors(nearbyAssets, position) ==
  [k \in 1..Len(nearbyAssets) |-> WithVector(nearbyAssets[k], position)]

RenderAssets(rows, position, kind) ==
  assetsWithVectors(getNearbyAssets(rows, position, kind), position)

RenderPositions == {AssetRefinedPoint, [lat |-> "-90", lon |-> "90"]}

\* RenderElements for an observer at a refined position, over the stored rows
RenderNearby(position, kind) ==
  /\ rendered' = <<[position |-> position,
                    nearbyAssets |-> getNearbyAssets(rawfrontend, position, kind),
                    assets |-> RenderAssets(rawfrontend, position, kind)]>>
  /\ UNCHANGED <<rawfrontend, requests, socketVars, resolverVars>>

NextAssets ==
  \/ \E body \in Bodies : PostAsset(body)
  \/ \E i \in 1..MaxRequests, outcome \in AssetDbOutcomes : AssetTriangulateReturns(i, outcome)
  \/ \E i \in 1..MaxRequests, ok \in BOOLEAN : SaveReturns(i, ok)
  \/ \E i \in 1..MaxRequests, ok \in BOOLEAN : UpdateReturns(i, ok)
  \/ \E position \in RenderPositions, kind \in {"rows", "error"} : RenderNearby(position, kind)

SpecAssets == Init /\ [][NextAssets]_vars

\* ---------------------------------------------------------------------------
\* RenderElements over whatever rows the lookup returns: rawfrontend is also
\* written outside this backend, so the creator coordinates of a row the
\* query returns need not be finite.
\* ---------------------------------------------------------------------------
MaxAnchors == 3

AnchorCreators == {[lat |-> "0", lon |-> "0"], [lat |-> "90", lon |-> "0"],
                   [lat |-> "NaN", lon |-> "0"]}
ObserverPositions == RenderPositions \cup {[lat |-> "Infinity", lon |-> "0"]}

\* a row of the query result: objectid k, placed by a creator at that position
LookupRow(k, creator) ==
  LET objectCoords == enuOffsetToGeodetic(creator.lat, creator.lon, 5, 10, 0)
  IN [recordData([refinedLat |-> creator.lat, refinedLon |-> creator.lon], objectCoords, k)
        EXCEPT !.object_location = ST_MakePoint(objectCoords.lon, objectCoords.lat),
               !.user_location = ST_MakePoint(creator.lon, creator.lat)]

\* the query results: up to MaxAnchors rows, in the order of the query
LookupResults ==
  UNION {[1..n -> AnchorCreators] : n \in 0..MaxAnchors}

\* RenderElements runs once, on the rows the query returned or on its failure
RenderLookup(position, creators, kind) ==
  /\ rendered = <<>>
  /\ LET nearbyAssets ==
           IF kind = "rows"
           THEN [k \in 1..Len(creators) |-> AssetData(LookupRow(k, creators[k]))]
           ELSE <<>>
     IN rendered' = <<[position |-> position, nearbyAssets |-> nearbyAssets,
                       assets |-> assetsWithVectors(nearbyAssets, position)]>>
  /\ UNCHANGED <<rawfrontend, requests, socketVars, resolverVars>>

NextRender ==
  \E position \in ObserverPositions, creators \in LookupResults, kind \in {"rows", "error"} :
    RenderLookup(position, creators, kind)

SpecRender == Init /\ [][NextRender]_vars

\* the request that inserted the row with this objectid
CreatedBy(i, objectid) == i \in 1..Len(requests) /\ requests[i].objectid = Some(objectid)

\* C11: every asset rendered for an observer was resolved from the position
\* of its creator, the creator-to-object vector of the request that created
\* it, and the observer's position, and carries the resolver's result.
C11_CreationVectorResolved ==
  rendered # <<>> =>
    \A k \in 1..Len(rendered[1].assets) :
      LET entry == rendered[1].assets[k] IN
        \E i \in 1..Len(requests) :
          /\ CreatedBy(i, entry.asset.id)
          /\ entry.creator.lat = Val(requests[i].refinedUser).refinedLat
          /\ entry.creator.lon = Val(requests[i].refinedUser).refinedLon
          /\ entry.user.lat = rendered[1].position.lat
          /\ entry.user.lon = rendered[1].position.lon
          /\ entry.vCA = Val(requests[i].position)
          /\ entry.vector_relative =
               computeAssetPlacementVector(entry.creator, entry.user, entry.vCA).vec

\* C19: a request whose body carries the documented fields userLatitude,
\* userLongitude (both non-zero) and position is not answered with the
\* missing-fields error response.
C19_DocumentedBodyAccepted ==
  \A i \in 1..Len(requests) :
    (/\ requests[i].body \in DocumentedBodies
     /\ Val(requests[i].body.userLatitude) # "0"
     /\ Val(requests[i].body.userLongitude) # "0")
    => requests[i].response # Some(ErrorResponse(MissingMessage))

C21_SessionIsolation ==
  [][\A t \in Sessions :
       client'[t] # client[t] =>
         \E h \in 1..Len(samples) : Sid(h) = t /\ Resumed(h)]_vars

C21_Witness ==
  /\ client[1].initialPosition = Some(0)
  /\ client[2].initialPosition = Some(51)
  /\ Pongs(2) = 1
  /\ socketStatus[2] = "disconnected"
  /\ \E h \in 1..Len(samples) : samples[h].socket = 1 /\ samples[h].pc = "done"


\* the step in which the handler of sample h ends
Completes(h) == samples[h].pc # "done" /\ samples'[h].pc = "done"

\* after the step no other handler of the socket of sample h is suspended
AloneAfter(h) ==
  \A k \in 1..Len(samples') :
    (k # h /\ samples'[k].socket = Sid(h)) => samples'[k].pc = "done"

\* C22: when the handler of a non-first sample ends without an error and no
\* other sample of its session is in flight, the session state is
\* 'off_boundaries' if the sample is farther than 50 m from the reference,
\* and 'ok' otherwise.
C22_StateTracksLatestSample ==
  [][\A h \in 1..Len(samples) :
       (/\ Completes(h)
        /\ samples'[h].distance # Unset
        /\ ~HasEvent(Sid(h), "error", h)'
        /\ AloneAfter(h))
       => client'[Sid(h)].state =
            IF Val(samples'[h].distance) > BoundaryDistance THEN "off_boundaries" ELSE "ok"]_vars

\* the entries of a session into off_boundaries, by the sample that made them
EntrySamples(s) ==
  {handled[s][i].sample : i \in {j \in 1..Len(handled[s]) :
      handled[s][j].to = "off_boundaries" /\ handled[s][j].from # "off_boundaries"}}

\* the positions of the off_boundaries events among the events of a session
OffEvents(s) == {j \in 1..Len(emitted[s]) : emitted[s][j].event = "off_boundaries"}

\* every off_boundaries event belongs to an entry, and no entry has two
OneEventPerEntry ==
  \A s \in Sessions :
    /\ \A j \in OffEvents(s) : emitted[s][j].sample \in EntrySamples(s)
    /\ \A j, k \in OffEvents(s) : emitted[s][j].sample = emitted[s][k].sample => j = k

\* the resuming handler of sample h starts no lookup and emits no off_boundaries event
NoLookup(h) ==
  /\ samples'[h].pc = "done"
  /\ \A i \in 1..Len(NewEvents(h)) : NewEvents(h)[i].event # "off_boundaries"

\* C23 as stated: one off_boundaries event per entry at most, and a sample
\* received while the session was off_boundaries triggers no lookup and no
\* off_boundaries event.
C23_ReceivedOffNoLookup ==
  [][/\ OneEventPerEntry
     /\ \A h \in 1..Len(samples) :
          (Resumed(h) /\ samples[h].receivedIn = "off_boundaries") => NoLookup(h)]_vars

\* C23, amended: one off_boundaries event per entry at most, and a sample
\* whose handler resumes while the session is off_boundaries triggers no
\* lookup and no off_boundaries event.
C23_EvaluatedOffNoLookup ==
  [][/\ OneEventPerEntry
     /\ \A h \in 1..Len(samples) :
          (Resumed(h) /\ Found(h).state = "off_boundaries") => NoLookup(h)]_vars

C23_Witness ==
  /\ \E i \in 1..Len(handled[1]) :
       /\ handled[1][i].from = "off_boundaries"
       /\ handled[1][i].to = "off_boundaries"
       /\ samples[handled[1][i].sample].receivedIn = "off_boundaries"
       /\ Val(samples[handled[1][i].sample].distance) > BoundaryDistance
       /\ samples[handled[1][i].sample].pc = "done"
  /\ Cardinality(OffEvents(1)) = 1
  /\ \A h \in 1..Len(samples) : samples[h].pc = "done"


\* the lookup result and the refined position of the sample of an event
FoundBy(e) == Val(samples[e.sample].nearbyAssets)
CrossedAt(e) == Val(samples[e.sample].refinedPosition)

\* C24: the assets of every off_boundaries event are not empty: they are the
\* single placeholder asset, id 0, at the refined position of the crossing
\* sample, when the lookup found no anchor, and the anchors of the lookup
\* otherwise.
C24_AssetsNeverEmpty ==
  \A s \in Sessions : \A j \in OffEvents(s) :
    LET e == emitted[s][j] IN
      /\ Len(e.assets) > 0
      /\ FoundBy(e) = <<>> => e.assets = <<[id |-> 0, position |-> CrossedAt(e)]>>
      /\ FoundBy(e) # <<>> => e.assets = FoundBy(e)

C24_Witness ==
  \E j, k \in OffEvents(1) :
    /\ FoundBy(emitted[1][j]) = <<>>
    /\ emitted[1][j].assets = <<[id |-> 0, position |-> 51]>>
    /\ FoundBy(emitted[1][k]) # <<>>
    /\ emitted[1][k].assets = FoundBy(emitted[1][k])

\* the sample evaluated last on socket s
LastHandled(s) == handled[s][Len(handled[s])].sample

C26_OneEntryPerAnchor ==
  rendered # <<>> =>
    LET R == rendered[1] IN
      /\ Len(R.assets) = Len(R.nearbyAssets)
      /\ \A k \in 1..Len(R.nearbyAssets) :
           LET entry == R.assets[k]
               a == R.nearbyAssets[k]
               finite == /\ isFinite(a.creator_latitude) /\ isFinite(a.creator_longitude)
                         /\ isFinite(R.position.lat) /\ isFinite(R.position.lon)
           IN /\ entry.asset = a
              /\ entry.vector_relative # Unset <=> finite
              /\ finite =>
                   entry.vector_relative =
                     computeAssetPlacementVector(
                       [lat |-> a.creator_latitude, lon |-> a.creator_longitude, h |-> Some(370)],
                       [lat |-> R.position.lat, lon |-> R.position.lon, h |-> Some(370)],
                       [e |-> 0, n |-> 0, u |-> 0]).vec

C26_Witness ==
  /\ rendered # <<>>
  /\ Len(rendered[1].nearbyAssets) = 3
  /\ Len(rendered[1].assets) = 3
  /\ rendered[1].assets[1].vector_relative # Unset
  /\ rendered[1].assets[2].vector_relative = Unset
  /\ rendered[1].assets[2].asset.id = 2
  /\ rendered[1].assets[3].vector_relative # Unset


\* C27: in every state of every session, a session without a reference
\* position is in state 'accept', and a session in state 'ok' or
\* 'off_boundaries' has its reference position and its current position set.
C27_ReferenceBeforeSettled ==
  \A s \in Sessions :
    /\ client[s].initialPosition = Unset => client[s].state = "accept"
    /\ client[s].state \in {"ok", "off_boundaries"} =>
         client[s].initialPosition # Unset /\ client[s].currentPosition # Unset

C27_Witness ==
  /\ client[1].state = "off_boundaries"
  /\ client[1].initialPosition # Unset /\ client[1].currentPosition # Unset
  /\ \E h \in 1..Len(samples) : samples[h].socket = 1 /\ samples[h].pc = "awaitRender"
  /\ client[2].initialPosition = Unset /\ client[2].state = "accept"
  /\ \E h \in 1..Len(samples) : samples[h].socket = 2 /\ samples[h].pc = "awaitTriangulate"

\* the sessions that connected and have not disconnected
Live == {s \in Sessions : socketStatus[s] = "connected"}

\* C28: connectedClients and clientSockets have the same keys, the sessions
\* that connected and have not disconnected; getConnectedClients returns
\* that set, and isClientConnected is false for every id outside it.
C28_RegistryConsistent ==
  /\ connectedClients = Live
  /\ clientSockets = Live
  /\ getConnectedClients = Live
  /\ \A id \in Sessions \ Live : ~isClientConnected(id)

C28_Witness ==
  /\ socketStatus[1] = "disconnected"
  /\ socketStatus[2] = "connected"
  /\ getConnectedClients = {2}
  /\ isClientConnected(2) /\ ~isClientConnected(1)


\* the rows a request has stored
StoredBy(i) == {k \in 1..Len(rawfrontend) : requests[i].objectid = Some(k)}

\* C29: a request answered with the error response has left no record in
\* rawfrontend; a request answered with success has left one record, with
\* its coordinates, object_location and user_location set.
C29_AllOrNothing ==
  \A i \in 1..Len(requests) :
    requests[i].pc = "done" =>
      IF Val(requests[i].response).status = 500
      THEN StoredBy(i) = {}
      ELSE \E k \in StoredBy(i) :
             /\ StoredBy(i) = {k}
             /\ Len(rawfrontend[k].coordinates) = 3
             /\ rawfrontend[k].object_location # Unset
             /\ rawfrontend[k].user_location # Unset

\* C30: processAssetData answers 'Missing required fields' exactly when its
\* userLatitude, userLongitude or position is absent; a latitude or
\* longitude of 0 is present.
C30_MissingOnlyWhenAbsent ==
  \A i \in 1..Len(requests) :
    requests[i].response = Some(ErrorResponse(MissingMessage))
      <=> \/ requests[i].userLatitude = Unset
          \/ requests[i].userLongitude = Unset
          \/ requests[i].position = Unset

====
